---- MODULE Spec2Model ----
(***************************************************************************)
(* Model of src/app.py: a Streamlit script that chains three calls to a    *)
(* generative backend (enhance brief -> sketch -> render).  The script is  *)
(* re-executed from the top on every press of the Generate button; only    *)
(* st.session_state survives from one execution to the next.               *)
(*                                                                         *)
(* Python values are records [t, v]: t is the type tag ("absent" for a     *)
(* missing session key, "none", "str", "bytes") and v the sequence of      *)
(* characters or bytes.  Text is a sequence of one-character strings.      *)
(***************************************************************************)
EXTENDS Integers, Sequences, FiniteSets, TLC

VARIABLES client, session, pc, runs, brief, invoked, returned, got,
          calls, errors, status, probe

vars == <<client, session, pc, runs, brief, invoked, returned, got,
          calls, errors, status, probe>>

(* ------------------------------ bounds -------------------------------- *)
MaxRuns == 2
MaxDetailLen == 230

(* --------------------------- Python values ---------------------------- *)
Absent == [t |-> "absent", v |-> <<>>]
None_ == [t |-> "none", v |-> <<>>]
Str(s) == [t |-> "str", v |-> s]
Bytes(b) == [t |-> "bytes", v |-> b]

TruthyIsNotNone(x) == x.t \in {"str", "bytes"}
Truthy(x) == x.t \in {"str", "bytes"} /\ Len(x.v) > 0

Min(a, b) == IF a < b THEN a ELSE b

(* ------------------------- the design brief --------------------------- *)
Modern == <<"M", "o", "d", "e", "r", "n">>
ArtDeco == <<"A", "r", "t", " ", "D", "e", "c", "o">>
LivingRoom == <<"L", "i", "v", "i", "n", "g", " ", "R", "o", "o", "m">>
Wood == <<"W", "o", "o", "d">>
Neutral == <<"N", "e", "u", "t", "r", "a", "l">>
DarkMoody == <<"D", "a", "r", "k", " ", "&", " ", "M", "o", "o", "d", "y">>

Styles == {Modern, ArtDeco}
Rooms == {LivingRoom}
Materials == {Wood}
Palettes == {Neutral, DarkMoody}

DetailChars == <<"x", "y", "z">>
Detail(n) == [i \in 1..n |-> DetailChars[((i - 1) % 3) + 1]]
DetailLens == {0, 5, 143, 150, 200, 201, MaxDetailLen}
Details == {Detail(n) : n \in DetailLens}

Briefs == [style : Styles, room : Rooms, material : Materials,
           palette : Palettes, details : Details]

BasePrompt(b) ==
    b.style \o <<" ">> \o b.room
      \o <<" ", "w", "i", "t", "h", " ", "f", "o", "c", "u", "s", " ", "o", "n", " ">>
      \o b.material \o <<" ", "a", "n", "d", " ">> \o b.palette
      \o <<" ", "t", "o", "n", "e", "s", ".", " ">> \o b.details

(* ---------------------------- step 1 ---------------------------------- *)
TruncLen == 200

TruncateOff(s) == SubSeq(s, 1, Min(Len(s), TruncLen + 1))
Truncate(s) == SubSeq(s, 1, Min(Len(s), TruncLen))

IsSpace(c) == c \in {" ", "\n", "\t", "\r"}

RECURSIVE LStrip(_)
LStrip(s) == IF s # <<>> /\ IsSpace(Head(s)) THEN LStrip(Tail(s)) ELSE s

RECURSIVE RStrip(_)
RStrip(s) ==
    IF s # <<>> /\ IsSpace(s[Len(s)]) THEN RStrip(SubSeq(s, 1, Len(s) - 1)) ELSE s

NoStrip(s) == s
Strip(s) == RStrip(LStrip(s))

Call(stage, model, arg) == [stage |-> stage, model |-> model, arg |-> arg]
Err(stage, cause) == [stage |-> stage, cause |-> cause]
Outcome(ret, cs, es) == [ret |-> ret, calls |-> cs, errors |-> es]

NoCandidates == [none |-> TRUE, v |-> <<>>]

Raise(e) == [kind |-> "raise", err |-> e, text |-> None_, candidates |-> NoCandidates]
TextResp(x) == [kind |-> "ok", err |-> "", text |-> x, candidates |-> NoCandidates]

step1_NoClientGuard(cl, bp, resp) ==
    LET call == Call(1, "MODEL_TEXT", Str(Truncate(bp))) IN
    IF resp.kind = "raise"
    THEN Outcome(None_, <<call>>, <<Err(1, resp.err)>>)
    ELSE IF resp.text.t # "str"
    THEN Outcome(None_, <<call>>,
                 <<Err(1, "'NoneType' object has no attribute 'strip'")>>)
    ELSE Outcome(Str(Strip(resp.text.v)), <<call>>, <<>>)

step1_enhance_prompt(cl, bp, resp) ==
    IF ~cl THEN Outcome(None_, <<>>, <<>>)
    ELSE LET call == Call(1, "MODEL_TEXT", Str(Truncate(bp))) IN
         IF resp.kind = "raise"
         THEN Outcome(None_, <<call>>, <<Err(1, resp.err)>>)
         ELSE IF resp.text.t # "str"
         THEN Outcome(None_, <<call>>,
                      <<Err(1, "'NoneType' object has no attribute 'strip'")>>)
         ELSE Outcome(Str(Strip(resp.text.v)), <<call>>, <<>>)

(* ------------------------- steps 2 and 3 ------------------------------ *)
TextPart == [inline_none |-> TRUE, data |-> None_]
ImagePart(d) == [inline_none |-> FALSE, data |-> d]
Candidate(ps) == [content_none |-> FALSE, parts_none |-> FALSE, parts |-> ps]
CandidateNoContent == [content_none |-> TRUE, parts_none |-> TRUE, parts |-> <<>>]
CandidateNoParts == [content_none |-> FALSE, parts_none |-> TRUE, parts |-> <<>>]
ImageResp(cs) ==
    [kind |-> "ok", err |-> "", text |-> None_, candidates |-> [none |-> FALSE, v |-> cs]]
NoCandidatesResp ==
    [kind |-> "ok", err |-> "", text |-> None_, candidates |-> NoCandidates]

Extracted(raised, ret, err) == [raised |-> raised, ret |-> ret, err |-> err]

RECURSIVE LastInline(_)
LastInline(ps) ==
    IF ps = <<>> THEN None_
    ELSE IF ~ps[Len(ps)].inline_none THEN ps[Len(ps)].data
    ELSE LastInline(SubSeq(ps, 1, Len(ps) - 1))

RECURSIVE FirstInline(_)
FirstInline(ps) ==
    IF ps = <<>> THEN None_
    ELSE IF ~Head(ps).inline_none THEN Head(ps).data
    ELSE FirstInline(Tail(ps))

ExtractImageUnguarded(resp) ==
    IF resp.candidates.none \/ resp.candidates.v = <<>>
    THEN Extracted(TRUE, None_, "list index out of range")
    ELSE LET c == resp.candidates.v[1] IN
         IF c.content_none
         THEN Extracted(TRUE, None_, "'NoneType' object has no attribute 'parts'")
         ELSE IF c.parts_none
         THEN Extracted(TRUE, None_, "'NoneType' object is not iterable")
         ELSE Extracted(FALSE, FirstInline(c.parts), "")

ExtractImage(resp) ==
    IF resp.candidates.none \/ resp.candidates.v = <<>>
    THEN Extracted(FALSE, None_, "")
    ELSE LET c == resp.candidates.v[1] IN
         IF c.content_none
         THEN Extracted(TRUE, None_, "'NoneType' object has no attribute 'parts'")
         ELSE IF c.parts_none \/ c.parts = <<>>
         THEN Extracted(FALSE, None_, "")
         ELSE Extracted(FALSE, FirstInline(c.parts), "")

(* An exception that leaves a stage function instead of a return value.   *)
Escaped == [t |-> "escaped", v |-> <<>>]

step2_NoTry(cl, enhanced_prompt, resp) ==
    IF ~cl THEN Outcome(None_, <<>>, <<>>)
    ELSE LET call == Call(2, "MODEL_IMAGE", enhanced_prompt) IN
         IF resp.kind = "raise"
         THEN Outcome(Escaped, <<call>>, <<>>)
         ELSE LET x == ExtractImage(resp) IN
              IF x.raised
              THEN Outcome(Escaped, <<call>>, <<>>)
              ELSE Outcome(x.ret, <<call>>, <<>>)

step2_generate_sketch(cl, enhanced_prompt, resp) ==
    IF ~cl THEN Outcome(None_, <<>>, <<>>)
    ELSE LET call == Call(2, "MODEL_IMAGE", enhanced_prompt) IN
         IF resp.kind = "raise"
         THEN Outcome(None_, <<call>>, <<Err(2, resp.err)>>)
         ELSE LET x == ExtractImage(resp) IN
              IF x.raised
              THEN Outcome(None_, <<call>>, <<Err(2, x.err)>>)
              ELSE Outcome(x.ret, <<call>>, <<>>)

step3_RetryOnError(cl, sketch_bytes, resp) ==
    IF ~cl THEN Outcome(None_, <<>>, <<>>)
    ELSE LET call == Call(3, "MODEL_IMAGE", sketch_bytes) IN
         IF resp.kind = "raise"
         THEN Outcome(None_, <<call, call>>, <<Err(3, resp.err)>>)
         ELSE LET x == ExtractImage(resp) IN
              IF x.raised
              THEN Outcome(None_, <<call>>, <<Err(3, x.err)>>)
              ELSE Outcome(x.ret, <<call>>, <<>>)

step3_generate_render(cl, sketch_bytes, resp) ==
    IF ~cl THEN Outcome(None_, <<>>, <<>>)
    ELSE LET call == Call(3, "MODEL_IMAGE", sketch_bytes) IN
         IF resp.kind = "raise"
         THEN Outcome(None_, <<call>>, <<Err(3, resp.err)>>)
         ELSE LET x == ExtractImage(resp) IN
              IF x.raised
              THEN Outcome(None_, <<call>>, <<Err(3, x.err)>>)
              ELSE Outcome(x.ret, <<call>>, <<>>)

(* Image.open(io.BytesIO(b)): succeeds on bytes that start with the PNG    *)
(* signature, raises on anything else.                                     *)
Decodes(b) == b.t = "bytes" /\ Len(b.v) >= 3 /\ SubSeq(b.v, 1, 3) = <<"P", "N", "G">>

(* ----------------------- backend behaviours --------------------------- *)
PngA == Bytes(<<"P", "N", "G", "a">>)
PngB == Bytes(<<"P", "N", "G", "b">>)
Junk == Bytes(<<"J", "K">>)
EmptyBytes == Bytes(<<>>)

Responses1 ==
    { Raise("503 service unavailable"),
      TextResp(None_),
      TextResp(Str(<<>>)),
      TextResp(Str(<<" ", "\n">>)),
      TextResp(Str(<<" ", "A", " ", "b", "\n">>)),
      TextResp(Str(<<"C">>)) }

Responses23 ==
    { Raise("429 quota exceeded"),
      NoCandidatesResp,
      ImageResp(<<>>),
      ImageResp(<<CandidateNoContent>>),
      ImageResp(<<CandidateNoParts>>),
      ImageResp(<<Candidate(<<>>)>>),
      ImageResp(<<Candidate(<<TextPart>>)>>),
      ImageResp(<<Candidate(<<TextPart, TextPart>>)>>),
      ImageResp(<<Candidate(<<ImagePart(PngA)>>)>>),
      ImageResp(<<Candidate(<<TextPart, ImagePart(PngB), ImagePart(PngA)>>)>>),
      ImageResp(<<Candidate(<<ImagePart(Junk)>>)>>),
      ImageResp(<<Candidate(<<ImagePart(EmptyBytes), ImagePart(PngA)>>)>>),
      ImageResp(<<Candidate(<<ImagePart(None_)>>)>>),
      ImageResp(<<Candidate(<<TextPart>>), Candidate(<<ImagePart(PngA)>>)>>) }

(* --------------------------- the script ------------------------------- *)
Slots == {"step1_text", "step2_image", "step3_image"}
Stages == 1..3
NoResp == [kind |-> "none", err |-> "", text |-> None_, candidates |-> NoCandidates]
NoProbe == [stage |-> 0, client |-> FALSE, arg |-> None_, details |-> <<>>,
            resp |-> NoResp, out |-> Outcome(None_, <<>>, <<>>)]
DefaultBrief == [style |-> Modern, room |-> LivingRoom, material |-> Wood,
                 palette |-> Neutral, details |-> <<>>]
FailLabel == <<"Step 1 Failed", "Step 2 Failed", "Step 3 Failed">>
DoneLabel == <<"Brief Enhanced!", "Sketch Generated!", "Render Complete!">>
ConnectionFailed ==
    Err(0, "Connection failed. Please check your Google Cloud credentials.")

base_prompt == BasePrompt(brief)

Terminal == {"success", "failed", "crashed"}

Init ==
    /\ client \in BOOLEAN
    /\ session = [k \in Slots |-> Absent]
    /\ pc = "idle"
    /\ runs = 0
    /\ brief = DefaultBrief
    /\ invoked = <<>>
    /\ returned = [n \in Stages |-> Absent]
    /\ got = [n \in Stages |-> NoResp]
    /\ calls = <<>>
    /\ errors = IF client THEN <<>> ELSE <<ConnectionFailed>>
    /\ status = [n \in Stages |-> ""]
    /\ probe = NoProbe

InitSession(ss) ==
    [k \in Slots |->
        IF ss[k].t = "absent"
        THEN (IF k = "step1_text" THEN Str(<<>>) ELSE None_)
        ELSE ss[k]]

(* One press of Generate: the script runs from the top (client is built    *)
(* again, the widgets are read) down to the Step 1 block.                  *)
Generate ==
    /\ pc \in {"idle"} \cup Terminal
    /\ runs < MaxRuns
    /\ probe = NoProbe
    /\ \E cl \in BOOLEAN, b \in Briefs :
         /\ client' = cl
         /\ brief' = b
         /\ errors' = IF cl THEN <<>> ELSE <<ConnectionFailed>>
    /\ session' = InitSession(session)
    /\ pc' = "step1"
    /\ runs' = runs + 1
    /\ invoked' = <<>>
    /\ returned' = [n \in Stages |-> Absent]
    /\ got' = [n \in Stages |-> NoResp]
    /\ calls' = <<>>
    /\ status' = [n \in Stages |-> ""]
    /\ UNCHANGED probe

Record(n, resp, o) ==
    /\ invoked' = Append(invoked, n)
    /\ returned' = [returned EXCEPT ![n] = o.ret]
    /\ got' = [got EXCEPT ![n] = IF o.calls = <<>> THEN NoResp ELSE resp]
    /\ calls' = calls \o o.calls
    /\ errors' = errors \o o.errors

Step1NoStop ==
    /\ pc = "step1"
    /\ \E resp \in Responses1 :
         LET o == step1_enhance_prompt(client, base_prompt, resp) IN
         /\ session' = [session EXCEPT !["step1_text"] = o.ret]
         /\ Record(1, resp, o)
         /\ IF Truthy(o.ret)
            THEN status' = [status EXCEPT ![1] = DoneLabel[1]]
            ELSE status' = [status EXCEPT ![1] = FailLabel[1]]
         /\ pc' = "step2"
    /\ UNCHANGED <<client, runs, brief, probe>>

Step1 ==
    /\ pc = "step1"
    /\ \E resp \in Responses1 :
         LET o == step1_enhance_prompt(client, base_prompt, resp) IN
         /\ session' = [session EXCEPT !["step1_text"] = o.ret]
         /\ Record(1, resp, o)
         /\ IF Truthy(o.ret)
            THEN status' = [status EXCEPT ![1] = DoneLabel[1]] /\ pc' = "step2"
            ELSE status' = [status EXCEPT ![1] = FailLabel[1]] /\ pc' = "failed"
    /\ UNCHANGED <<client, runs, brief, probe>>

Step2ClearOnFail ==
    /\ pc = "step2"
    /\ \E resp \in Responses23 :
         LET o == step2_generate_sketch(client, session["step1_text"], resp) IN
         /\ Record(2, resp, o)
         /\ IF Truthy(o.ret)
            THEN /\ session' = [session EXCEPT !["step2_image"] = o.ret]
                 /\ IF Decodes(o.ret)
                    THEN status' = [status EXCEPT ![2] = DoneLabel[2]] /\ pc' = "step3"
                    ELSE status' = status /\ pc' = "crashed"
            ELSE /\ session' = [session EXCEPT !["step1_text"] = Str(<<>>),
                                               !["step2_image"] = o.ret]
                 /\ status' = [status EXCEPT ![2] = FailLabel[2]]
                 /\ pc' = "failed"
    /\ UNCHANGED <<client, runs, brief, probe>>

Step2 ==
    /\ pc = "step2"
    /\ \E resp \in Responses23 :
         LET o == step2_generate_sketch(client, session["step1_text"], resp) IN
         /\ session' = [session EXCEPT !["step2_image"] = o.ret]
         /\ Record(2, resp, o)
         /\ IF Truthy(o.ret)
            THEN IF Decodes(o.ret)
                 THEN status' = [status EXCEPT ![2] = DoneLabel[2]] /\ pc' = "step3"
                 ELSE status' = status /\ pc' = "crashed"
            ELSE status' = [status EXCEPT ![2] = FailLabel[2]] /\ pc' = "failed"
    /\ UNCHANGED <<client, runs, brief, probe>>

Step3WrongSlot ==
    /\ pc = "step3"
    /\ \E resp \in Responses23 :
         LET o == step3_generate_render(client, session["step3_image"], resp) IN
         /\ session' = [session EXCEPT !["step3_image"] = o.ret]
         /\ Record(3, resp, o)
         /\ IF Truthy(o.ret)
            THEN IF Decodes(o.ret)
                 THEN status' = [status EXCEPT ![3] = DoneLabel[3]] /\ pc' = "success"
                 ELSE status' = status /\ pc' = "crashed"
            ELSE status' = [status EXCEPT ![3] = FailLabel[3]] /\ pc' = "failed"
    /\ UNCHANGED <<client, runs, brief, probe>>

Step3 ==
    /\ pc = "step3"
    /\ \E resp \in Responses23 :
         LET o == step3_generate_render(client, session["step2_image"], resp) IN
         /\ session' = [session EXCEPT !["step3_image"] = o.ret]
         /\ Record(3, resp, o)
         /\ IF Truthy(o.ret)
            THEN IF Decodes(o.ret)
                 THEN status' = [status EXCEPT ![3] = DoneLabel[3]] /\ pc' = "success"
                 ELSE status' = status /\ pc' = "crashed"
            ELSE status' = [status EXCEPT ![3] = FailLabel[3]] /\ pc' = "failed"
    /\ UNCHANGED <<client, runs, brief, probe>>

(* Direct application of one stage function in a fresh process, as a unit  *)
(* test with a substituted backend does it.                                *)
ProbeArgs2 == {Str(<<"A", " ", "b">>), Str(<<>>), None_}
ProbeArgs3 == {PngA, Junk, EmptyBytes, None_}

Probed(stage, cl, arg, details, resp, o) ==
    [stage |-> stage, client |-> cl, arg |-> arg, details |-> details,
     resp |-> resp, out |-> o]

ProbeStep1 ==
    /\ pc = "idle" /\ runs = 0
    /\ \E cl \in BOOLEAN, b \in Briefs, resp \in Responses1 :
         probe' = Probed(1, cl, Str(BasePrompt(b)), b.details, resp,
                         step1_enhance_prompt(cl, BasePrompt(b), resp))
    /\ UNCHANGED <<client, session, pc, runs, brief, invoked, returned, got,
                   calls, errors, status>>

ProbeStep2 ==
    /\ pc = "idle" /\ runs = 0
    /\ \E cl \in BOOLEAN, a \in ProbeArgs2, resp \in Responses23 :
         probe' = Probed(2, cl, a, <<>>, resp, step2_generate_sketch(cl, a, resp))
    /\ UNCHANGED <<client, session, pc, runs, brief, invoked, returned, got,
                   calls, errors, status>>

ProbeStep3 ==
    /\ pc = "idle" /\ runs = 0
    /\ \E cl \in BOOLEAN, a \in ProbeArgs3, resp \in Responses23 :
         probe' = Probed(3, cl, a, <<>>, resp, step3_generate_render(cl, a, resp))
    /\ UNCHANGED <<client, session, pc, runs, brief, invoked, returned, got,
                   calls, errors, status>>

Next ==
    \/ Generate
    \/ Step1
    \/ Step2
    \/ Step3
    \/ ProbeStep1
    \/ ProbeStep2
    \/ ProbeStep3

Spec == Init /\ [][Next]_vars

FairSpec == Spec /\ WF_vars(Step1) /\ WF_vars(Step2) /\ WF_vars(Step3)

(* ============================ properties ============================== *)
Invoked(n) == \E i \in 1..Len(invoked) : invoked[i] = n
StageFailed(n) == Invoked(n) /\ ~Truthy(returned[n])

(* C1 - early abort: once stage 1 or stage 2 of a run has returned no      *)
(* usable value, no later stage is invoked in that run; a stage is         *)
(* invoked only after its predecessor was invoked, returned a usable       *)
(* value and was marked complete.                                          *)
C1_EarlyAbort ==
    /\ \A n \in {1, 2} : StageFailed(n) => \A m \in Stages : m > n => ~Invoked(m)
    /\ \A m \in {2, 3} :
          Invoked(m) => /\ Invoked(m - 1)
                        /\ Truthy(returned[m - 1])
                        /\ status[m - 1] = DoneLabel[m - 1]

C1_Witness ==
    /\ pc = "failed"
    /\ invoked = <<1, 2>>
    /\ got[2].kind = "ok"
    /\ ~Truthy(returned[2])

SlotOf == <<"step1_text", "step2_image", "step3_image">>
Filled(n) == Truthy(session[SlotOf[n]])

(* C2 - monotonic fill: in every reachable state a non-empty slot N of     *)
(* the run record implies that every slot 1..N-1 holds a usable value.     *)
C2_MonotonicFill ==
    \A n \in Stages : Filled(n) => \A m \in Stages : m < n => Filled(m)

(* C3 - fresh run: when a run starts (the script has reached the Step 1    *)
(* block and no stage has been invoked yet) all three slots are empty.     *)
C3_FreshRun ==
    (pc = "step1") => \A n \in Stages : ~Filled(n)

(* C4 - backend unavailable: with no client every stage function returns   *)
(* None without issuing a backend call, and a run started without a        *)
(* client ends failed at stage 1 with zero calls.                          *)
C4_BackendUnavailable ==
    /\ (probe.stage \in Stages /\ ~probe.client) =>
          /\ probe.out.ret = None_
          /\ probe.out.calls = <<>>
    /\ (~client) => calls = <<>>
    /\ (~client /\ pc \notin {"idle", "step1"}) =>
          /\ pc = "failed"
          /\ status[1] = FailLabel[1]
          /\ invoked = <<1>>
          /\ returned[1] = None_

C4_Witness ==
    /\ probe.stage = 3
    /\ ~probe.client
    /\ probe.arg = PngA
    /\ probe.resp = ImageResp(<<Candidate(<<ImagePart(PngA)>>)>>)

(* Shapes of a transport-successful response that carries no inline image. *)
FirstCandidate(resp) == resp.candidates.v[1]
HasNoCandidates(resp) == resp.candidates.none \/ resp.candidates.v = <<>>
HasZeroParts(resp) ==
    /\ ~HasNoCandidates(resp)
    /\ ~FirstCandidate(resp).content_none
    /\ (FirstCandidate(resp).parts_none \/ FirstCandidate(resp).parts = <<>>)
HasOnlyTextParts(resp) ==
    /\ ~HasNoCandidates(resp)
    /\ ~FirstCandidate(resp).content_none
    /\ ~FirstCandidate(resp).parts_none
    /\ FirstCandidate(resp).parts # <<>>
    /\ \A i \in 1..Len(FirstCandidate(resp).parts) :
          FirstCandidate(resp).parts[i].inline_none
HasNoContent(resp) ==
    ~HasNoCandidates(resp) /\ FirstCandidate(resp).content_none
ListedNoImage(resp) ==
    resp.kind = "ok"
      /\ (HasNoCandidates(resp) \/ HasZeroParts(resp) \/ HasOnlyTextParts(resp))
ZeroImage(resp) ==
    resp.kind = "ok" /\ (ListedNoImage(resp) \/ HasNoContent(resp))

ErrorsOf(es, n) == {i \in 1..Len(es) : es[i].stage = n}

(* C5 - no image produced: a stage-2 or stage-3 response without any       *)
(* inline-image part makes the stage return None (never a usable value,    *)
(* never an escaped exception) and the run halts at that stage; for a      *)
(* response with no candidates, with zero parts or with text parts only,   *)
(* this happens without a "Step N Error" report.                           *)
C5_NoImageProduced ==
    /\ \A n \in {2, 3} :
          ZeroImage(got[n]) =>
             /\ returned[n] = None_
             /\ pc = "failed"
             /\ status[n] = FailLabel[n]
             /\ \A m \in Stages : m > n => ~Invoked(m)
             /\ ListedNoImage(got[n]) => ErrorsOf(errors, n) = {}
    /\ (probe.stage \in {2, 3} /\ probe.client /\ ZeroImage(probe.resp)) =>
          /\ probe.out.ret = None_
          /\ Len(probe.out.calls) = 1
          /\ ListedNoImage(probe.resp) => probe.out.errors = <<>>

C5_Witness ==
    /\ pc = "failed"
    /\ invoked = <<1, 2>>
    /\ HasOnlyTextParts(got[2])
    /\ session["step2_image"] = None_

(* C6 - empty result: a stage-1 response whose text is absent, empty or    *)
(* whitespace-only makes step1_enhance_prompt return no usable value       *)
(* (None or the empty string), the run fails at stage 1 without an         *)
(* escaped exception, and stage 2 is not invoked.                          *)
EmptyText(resp) ==
    resp.kind = "ok"
      /\ (resp.text.t = "none"
            \/ \A i \in 1..Len(resp.text.v) : resp.text.v[i] \in {" ", "\n", "\t", "\r"})

IsPrefix(e, full) ==
    Len(e) <= Len(full) /\ \A i \in 1..Len(e) : e[i] = full[i]

EmbeddedOk(details, full, cs) ==
    /\ Len(cs) = 1
    /\ cs[1].stage = 1
    /\ IsPrefix(cs[1].arg.v, full)
    /\ Len(details) > 200 => Len(cs[1].arg.v) = 200
    /\ Len(full) <= 200 => cs[1].arg.v = full

C7_Truncation ==
    /\ (Invoked(1) /\ client) =>
          EmbeddedOk(brief.details, base_prompt, SubSeq(calls, 1, 1))
    /\ (probe.stage = 1 /\ probe.client) =>
          EmbeddedOk(probe.details, probe.arg.v, probe.out.calls)

C7_Witness ==
    /\ Invoked(1)
    /\ client
    /\ Len(brief.details) > 200
    /\ Len(calls) >= 1
    /\ Len(calls[1].arg.v) = 200

(* C8 - outcome: a run that has ended is in Terminal(Success) with all     *)
(* three slots filled exactly when the three stages each returned a        *)
(* usable value, and otherwise is in Terminal(PartialFailure) at the       *)
(* first stage that returned none.                                         *)
StageOk(n) == Invoked(n) /\ Truthy(returned[n])

C8_Outcome ==
    (pc \in Terminal) =>
       IF \A n \in Stages : StageOk(n)
       THEN pc = "success" /\ \A n \in Stages : Filled(n)
       ELSE /\ pc = "failed"
            /\ \E n \in Stages :
                  /\ StageFailed(n)
                  /\ status[n] = FailLabel[n]
                  /\ \A m \in Stages : m < n => StageOk(m)

(* Every started run reaches a terminal position (checked under FairSpec). *)
RunTerminates == (pc \in {"step1", "step2", "step3"}) ~> (pc \in Terminal)

(* C9 - artifacts survive later failure: when stage 2 or stage 3 of a run  *)
(* has failed, every earlier slot still holds exactly the usable value     *)
(* its stage returned in this run.                                         *)
C9_ArtifactsSurvive ==
    \A n \in {2, 3} :
       StageFailed(n) =>
          \A m \in Stages : m < n =>
             /\ Truthy(returned[m])
             /\ session[SlotOf[m]] = returned[m]

C9_Witness ==
    /\ pc = "failed"
    /\ StageFailed(3)
    /\ session["step1_text"] = Str(<<"A", " ", "b">>)
    /\ session["step2_image"] = PngB

(* C10 - failure reporting: whenever a run has halted because stage N      *)
(* failed, the "Step N Failed" indication comes with a cause string: a     *)
(* "Step N Error: <cause>" message or, when the client is absent, the      *)
(* connection-failed message of the page.                                  *)
CauseShown(n) ==
    \/ \E i \in 1..Len(errors) : errors[i].stage = n /\ errors[i].cause # ""
    \/ ~client /\ \E i \in 1..Len(errors) : errors[i] = ConnectionFailed

C10_FailureReported ==
    \A n \in Stages :
       (pc = "failed" /\ status[n] = FailLabel[n]) => CauseShown(n)

(* C11 - failure isolation: whatever the backend does (raises, returns no  *)
(* candidates, a candidate without content, no text, parts without         *)
(* usable data), every stage function returns a value to its caller - no   *)
(* exception leaves it - and after a raised error or a malformed           *)
(* response that value is None.                                            *)
IsReturnValue(x) == x.t \in {"none", "str", "bytes"}
Faulted(resp) ==
    \/ resp.kind = "raise"
    \/ resp.kind = "ok" /\ resp.text.t = "none" /\ HasNoCandidates(resp)
    \/ resp.kind = "ok" /\ HasNoContent(resp)

C11_FailureIsolation ==
    /\ \A n \in Stages : Invoked(n) => IsReturnValue(returned[n])
    /\ \A n \in Stages : Faulted(got[n]) => returned[n] = None_
    /\ (probe.stage \in Stages) => IsReturnValue(probe.out.ret)
    /\ (probe.stage \in Stages /\ probe.client /\ Faulted(probe.resp)) =>
          probe.out.ret = None_

C11_Witness ==
    /\ probe.stage = 2
    /\ probe.client
    /\ probe.resp = ImageResp(<<CandidateNoContent>>)
    /\ probe.out.ret = None_
    /\ probe.out.errors # <<>>

(* C12 - failure classification: a transport-successful response without   *)
(* a usable result (stage 1 without text; stage 2 or 3 without             *)
(* candidates, parts or inline-image part) is never reported with a        *)
(* "Step N Error" message, and a raised service error always is.           *)
C12_Classification ==
    /\ EmptyText(got[1]) => ErrorsOf(errors, 1) = {}
    /\ \A n \in {2, 3} : ListedNoImage(got[n]) => ErrorsOf(errors, n) = {}
    /\ \A n \in Stages : (got[n].kind = "raise") => ErrorsOf(errors, n) # {}

(* C13 - single attempt, strict order: in a run every stage is invoked at  *)
(* most once and issues at most one backend call, the calls are issued in  *)
(* the order stage 1, stage 2, stage 3, a call of stage N+1 is issued      *)
(* only once stage N has returned, and a run issues at most three calls.   *)
C13_SingleAttemptInOrder ==
    /\ Len(calls) <= 3
    /\ \A i, j \in 1..Len(calls) : i < j => calls[i].stage < calls[j].stage
    /\ \A i, j \in 1..Len(invoked) : i < j => invoked[i] < invoked[j]
    /\ \A i \in 1..Len(calls) :
          calls[i].stage > 1 =>
             /\ Invoked(calls[i].stage - 1)
             /\ returned[calls[i].stage - 1] # Absent
    /\ (probe.stage \in Stages) => Len(probe.out.calls) <= 1

C13_Witness ==
    /\ pc = "failed"
    /\ got[3].kind = "raise"
    /\ Len(calls) = 3
    /\ invoked = <<1, 2, 3>>

(* C14 - hand-off: the input of the stage-2 call is exactly the value      *)
(* stage 1 returned in this run, and the input of the stage-3 call is      *)
(* exactly the value stage 2 returned in this run.                         *)
C14_HandOff ==
    \A i \in 1..Len(calls) :
       calls[i].stage > 1 => calls[i].arg = returned[calls[i].stage - 1]

C14_Witness ==
    /\ runs = 2
    /\ Len(calls) = 3
    /\ calls[2].arg = Str(<<"A", " ", "b">>)
    /\ calls[3].arg = PngB

(* C15 - first inline-image part wins: when the parts of the response's    *)
(* first candidate (the only ones the stage scans) include a part with     *)
(* inline data, stage 2 and stage 3 alike return the data of the part      *)
(* with the lowest index among them, whatever precedes or follows it.      *)
InlineIdx(resp) ==
    IF resp.kind # "ok" \/ HasNoCandidates(resp) THEN {}
    ELSE IF FirstCandidate(resp).content_none \/ FirstCandidate(resp).parts_none THEN {}
    ELSE {i \in 1..Len(FirstCandidate(resp).parts) :
             ~FirstCandidate(resp).parts[i].inline_none}
LowestInline(resp) ==
    FirstCandidate(resp).parts[
        CHOOSE i \in InlineIdx(resp) : \A j \in InlineIdx(resp) : i <= j].data

C15_FirstInlineWins ==
    /\ \A n \in {2, 3} :
          InlineIdx(got[n]) # {} => returned[n] = LowestInline(got[n])
    /\ (probe.stage \in {2, 3} /\ probe.client /\ InlineIdx(probe.resp) # {}) =>
          probe.out.ret = LowestInline(probe.resp)

C15_Witness ==
    /\ Invoked(3)
    /\ got[3] = ImageResp(<<Candidate(<<TextPart, ImagePart(PngB), ImagePart(PngA)>>)>>)
    /\ returned[3] = PngB
    /\ got[2] = ImageResp(<<Candidate(<<TextPart, ImagePart(PngB), ImagePart(PngA)>>)>>)

(* C16 - opaque payloads: a run that has ended and in which stage 2        *)
(* returned a non-empty byte sequence has stored it in the run record and  *)
(* has invoked stage 3, whether or not the bytes decode as an image.       *)
C16_OpaquePayloads ==
    (pc \in Terminal /\ Invoked(2)
        /\ returned[2].t = "bytes" /\ Len(returned[2].v) > 0) =>
       /\ session["step2_image"] = returned[2]
       /\ Invoked(3)

(* C17 - no empty hand-off: stage 2 is only ever called with a non-empty   *)
(* string and stage 3 with a non-empty byte sequence; a stage-1 reply      *)
(* that strips to the empty string, and a stage-2 response whose first     *)
(* inline part has empty data (even if a later part has an image), end     *)
(* the run as a failure of that stage.                                     *)
NonEmptyOf(x, t) == x.t = t /\ Len(x.v) > 0
FirstInlineEmpty(resp) ==
    InlineIdx(resp) # {} /\ ~NonEmptyOf(LowestInline(resp), "bytes")

C17_NoEmptyHandOff ==
    /\ \A n \in {2, 3} : Invoked(n) => \E i \in 1..Len(calls) : calls[i].stage = n
    /\ \A i \in 1..Len(calls) :
          /\ calls[i].stage = 2 => NonEmptyOf(calls[i].arg, "str")
          /\ calls[i].stage = 3 => NonEmptyOf(calls[i].arg, "bytes")
    /\ EmptyText(got[1]) => (~Invoked(2) /\ status[1] = FailLabel[1])
    /\ FirstInlineEmpty(got[2]) => (~Invoked(3) /\ status[2] = FailLabel[2])

C17_Witness ==
    /\ pc = "failed"
    /\ invoked = <<1, 2>>
    /\ got[2] = ImageResp(<<Candidate(<<ImagePart(EmptyBytes), ImagePart(PngA)>>)>>)
    /\ returned[2] = EmptyBytes

====
